---- MODULE Spec2Model ----
(***************************************************************************)
(* A model of the dyb-toymc event-generation engine: the ToyMC manager     *)
(* (toymc/__init__.py), the MCOutput it fills, the truth lookup table and   *)
(* the event types that feed it.                                            *)
(*                                                                          *)
(* Python values are modelled as follows.                                   *)
(*   - a lookup number is a record [tag, v]: None, an int, a float (v is    *)
(*     the value in halves, so 1.5 is v = 3) or a str;                      *)
(*   - a dict is the sequence of its (key, value) pairs in insertion order; *)
(*   - an exception is the name of its class in a field err, "none" when    *)
(*     the call returned;                                                   *)
(*   - numpy's seeded generator is a position in the stream of values that  *)
(*     the seed determines; the position counts every value taken.  What a *)
(*     call finds out about a value (its reading as an integer, how the    *)
(*     rejection loop that drew it went) is revealed one draw at a time    *)
(*     and remembered, so the same seed always replays the same values.    *)
(***************************************************************************)
EXTENDS Integers, Sequences, FiniteSets, TLC

\* ------------------------------------------------------------------ bounds
MaxTypes == 2       \* event types registered on one ToyMC
MaxRuns == 2        \* calls of run() on one ToyMC
MaxDraws == 4       \* raw values revealed per seed
MaxTurns == 1       \* rejected turns of rejection loops per seed
MaxRaw == 2         \* raw values are 0 .. MaxRaw-1
NsPerS == 2         \* clock ticks per second (int(1e9) in the source)
RadiusSteps == 5    \* position steps from the axis of the cylinder to its wall
MaxDisp == 2        \* displacements are 0 .. MaxDisp position steps
MaxNHitRaw == 128   \* raw values handed to WP_nHit_spectrum, 0 .. MaxNHitRaw-1
MaxFinalize == 1    \* calls of finalize() a script makes on one ToyMC

\* ------------------------------------------------------------ Python values
None == [tag |-> "none", v |-> 0]
PyInt(n) == [tag |-> "int", v |-> n]
PyFloat(halves) == [tag |-> "float", v |-> halves]
PyStr == [tag |-> "str", v |-> 0]

\* Python's == on lookup numbers, which decides when two dict keys collide.
PyEq(a, b) ==
    CASE a.tag = "none" \/ b.tag = "none" -> a.tag = b.tag
      [] a.tag = "str" \/ b.tag = "str" -> a.tag = b.tag /\ a.v = b.v
      [] a.tag = "int" /\ b.tag = "int" -> a.v = b.v
      [] a.tag = "float" /\ b.tag = "float" -> a.v = b.v
      [] a.tag = "int" /\ b.tag = "float" -> 2 * a.v = b.v
      [] OTHER -> a.v = 2 * b.v

\* Mutant of DictSet: equal keys do not collide, every assignment adds an
\* entry.
DictSet_keeps_both(d, key, value) == Append(d, <<key, value>>)

\* d[key] = value on a dict: a new key goes last, an old key keeps its place
\* (and its first key object) and takes the new value.
RECURSIVE DictSet(_, _, _)
DictSet(d, key, value) ==
    IF d = <<>> THEN << <<key, value>> >>
    ELSE IF PyEq(Head(d)[1], key) THEN << <<Head(d)[1], value>> >> \o Tail(d)
    ELSE << Head(d) >> \o DictSet(Tail(d), key, value)

\* list.sort(key=...): a stable insertion sort of the items [key, val] by
\* their integer key pairs, compared as Python compares tuples.
KeyLess(a, b) == a[1] < b[1] \/ (a[1] = b[1] /\ a[2] < b[2])

RECURSIVE Insert(_, _)
Insert(s, x) ==
    IF s = <<>> THEN <<x>>
    ELSE IF KeyLess(x.key, Head(s).key) THEN <<x>> \o s
    ELSE << Head(s) >> \o Insert(Tail(s), x)

RECURSIVE ListSort(_)
ListSort(s) ==
    IF s = <<>> THEN <<>>
    ELSE Insert(ListSort(SubSeq(s, 1, Len(s) - 1)), s[Len(s)])

Vals(s) == [i \in 1..Len(s) |-> s[i].val]

\* ------------------------------------------------------------- event types
\* An event type object.  cls is its class: "Single", "Correlated" or "Muon"
\* (toymc/single.py, correlated.py, muon.py), or "Custom", a user-defined
\* subclass of EventType written to the documented contract on the pattern of
\* Single: one subtype, labelled by the object's name and numbered by its
\* truth_label attribute; or "Bare", a user-defined subclass whose two methods
\* only call the ones they override, EventType.generate_events ("return []")
\* and EventType.labels ("return {}").  A probability is a fraction [num, den].
Prob(num, den) == [num |-> num, den |-> den]

EventType(cls, name, rate_hz, site, detector, truth_label, tl_p, tl_d) ==
    [cls |-> cls, name |-> name, rate_hz |-> rate_hz, site |-> site,
     detector |-> detector, truth_label |-> truth_label,
     truth_label_prompt |-> tl_p, truth_label_delayed |-> tl_d,
     prob_WP_and_AD |-> Prob(0, 1), prob_WP_and_shower |-> Prob(0, 1),
     avail_ads |-> <<>>]

\* Correlated.__init__ leaves both lookup numbers None; the user assigns them.
\* (coincidence_ns only scales the delays, which the model draws raw.)
Correlated(name, site, detector, rate_hz, tl_prompt, tl_delayed) ==
    EventType("Correlated", name, rate_hz, site, detector, None, tl_prompt,
              tl_delayed)

Custom(name, rate_hz, site, detector, truth_label) ==
    EventType("Custom", name, rate_hz, site, detector, truth_label, None, None)

Bare(name, rate_hz, site, detector) ==
    EventType("Bare", name, rate_hz, site, detector, None, None, None)

Single(name, rate_hz, site, detector) ==
    EventType("Single", name, rate_hz, site, detector, None, None, None)

\* Muon.WP_detector.
WP_detector == 6

\* Muon.__init__: the dict {1: (1, 2), 2: (1, 2), 4: (1, 2, 3, 4)} and its
\* keys; indexing it with another site raises KeyError.
MuonSites == {1, 2, 4}

AvailADs(site) ==
    IF site = 4 THEN <<1, 2, 3, 4>>
    ELSE IF site \in MuonSites THEN <<1, 2>>
    ELSE <<>>

\* Muon.__init__: the detectors of the site and the default probabilities
\* 0.1995 and 0.0005.  For a site that is not a key, avail_ads and the
\* attributes after it are never set.
Muon(name, site, rate_hz) ==
    [EventType("Muon", name, rate_hz, site, WP_detector, None, None, None)
        EXCEPT !.prob_WP_and_AD = Prob(1995, 10000),
               !.prob_WP_and_shower = Prob(5, 10000),
               !.avail_ads = AvailADs(site)]

\* The methods EventType declares with @abstractmethod, and those of them a
\* class overrides.  ABC refuses to create an object of a class that leaves
\* one of them abstract.
AbstractMethods == {"generate_events", "labels"}

ClassMethods(cls) ==
    IF cls \in {"Single", "Muon"} THEN {"generate_events"}
    ELSE {"generate_events", "labels"}

Instantiable(cls) == AbstractMethods \subseteq ClassMethods(cls)

\* The exception Cls(...) raises, "none" when the object is built: TypeError
\* from ABC before __init__ runs, KeyError from Muon.__init__.
InitError(et) ==
    IF ~Instantiable(et.cls) THEN "TypeError"
    ELSE IF et.cls = "Muon" /\ et.site \notin MuonSites THEN "KeyError"
    ELSE "none"

\* Mutant of labels: an entry whose number is None is left out.
labels_without_unset(et) ==
    IF et.cls = "Correlated"
    THEN (IF et.truth_label_prompt = None THEN <<>>
          ELSE << <<et.truth_label_prompt, et.name \o "_prompt">> >>)
         \o (IF et.truth_label_delayed = None
                 \/ PyEq(et.truth_label_prompt, et.truth_label_delayed)
             THEN <<>>
             ELSE << <<et.truth_label_delayed, et.name \o "_delayed">> >>)
    ELSE IF et.cls = "Bare" THEN <<>>
    ELSE << <<et.truth_label, et.name>> >>

\* labels(): the dict from lookup number to text label.
labels(et) ==
    IF et.cls = "Correlated"
    THEN DictSet(DictSet(<<>>, et.truth_label_prompt, et.name \o "_prompt"),
                 et.truth_label_delayed, et.name \o "_delayed")
    ELSE IF et.cls = "Bare" THEN <<>>
    ELSE << <<et.truth_label, et.name>> >>

\* The number of positional parameters of generate_events after self.
Arity(cls) == IF cls = "Correlated" THEN 3 ELSE 2

\* EventType.actual_event_count of the package toymc, the one "import toymc"
\* loads: the product, the generator is not used.  (The older top-level
\* module toymc.py, which the package shadows, returns
\* rng.poisson(expected_count).)
actual_event_count(duration_s, rate_hz) == duration_s * rate_hz

\* rng.integers(lo, hi) on one raw value of the stream.
integers(raw, lo, hi) == lo + (raw % (hi - lo))

\* An Event; oid is the identity of the object, (index of the event type in
\* event_types, index in the list generate_events returned).
Event(truth_index, timestamp, detector, site, oid) ==
    [truth_index |-> truth_index, timestamp |-> timestamp,
     detector |-> detector, site |-> site, oid |-> oid]

\* The fields of the namedtuple Event, and the positional values the
\* new_*_event methods of a class pass to it: Single and Muon pass 5 and the
\* 11 physical quantities, Correlated passes its lookup number as well.
EventFields == 17

EventArgs(cls) == IF cls \in {"Single", "Muon"} THEN 16 ELSE 17

\* A Python float is an IEEE double: 53 significant bits, kept here as the
\* sequence of its bits, most significant first, with the exponent of the
\* first one.  IntBits(n) are the binary digits of a natural number;
\* FracBits(r, den, k) the first k binary digits of the fraction r/den, and
\* FracRem what is left of it after them.
RECURSIVE IntBits(_)
IntBits(n) == IF n = 0 THEN <<>> ELSE Append(IntBits(n \div 2), n % 2)

RECURSIVE FracBits(_, _, _)
FracBits(r, den, k) ==
    IF k = 0 THEN <<>>
    ELSE << IF 2 * r >= den THEN 1 ELSE 0 >> \o FracBits((2 * r) % den, den, k - 1)

RECURSIVE FracRem(_, _, _)
FracRem(r, den, k) == IF k = 0 THEN r ELSE FracRem((2 * r) % den, den, k - 1)

RECURSIVE LeadingZeros(_, _)
LeadingZeros(r, den) == IF 2 * r >= den THEN 0 ELSE 1 + LeadingZeros(2 * r, den)

RECURSIVE BitsInc(_)
BitsInc(b) ==
    IF b = <<>> THEN <<1>>
    ELSE IF b[Len(b)] = 0 THEN [b EXCEPT ![Len(b)] = 1]
    ELSE Append(BitsInc(SubSeq(b, 1, Len(b) - 1)), 0)

RECURSIVE BitsToInt(_)
BitsToInt(b) ==
    IF b = <<>> THEN 0
    ELSE 2 * BitsToInt(SubSeq(b, 1, Len(b) - 1)) + b[Len(b)]

\* Round to nearest, ties to even: 54 or more bits and whether anything is
\* left beyond them become 53 bits, with a carry when the rounding overflows.
RoundToDouble(bits, sticky) ==
    LET top == SubSeq(bits, 1, 53)
        up == bits[54] = 1 /\ (sticky \/ top[53] = 1)
        m == IF up THEN BitsInc(top) ELSE top
    IN [bits |-> SubSeq(m, 1, 53), carry |-> IF Len(m) = 54 THEN 1 ELSE 0]

\* The float nearest to num/den (num, den > 0): what the literal 0.7 or the
\* division 7/10 gives.
Double(num, den) ==
    LET ib == IntBits(num \div den)
        r0 == num % den
        z == IF ib = <<>> THEN LeadingZeros(r0, den) ELSE 0
        rz == FracRem(r0, den, z)
        k == 54 - Len(ib)
        m == RoundToDouble(ib \o FracBits(rz, den, k), FracRem(rz, den, k) # 0)
    IN [bits |-> m.bits,
        exp |-> (IF ib = <<>> THEN 0 - (z + 1) ELSE Len(ib) - 1) + m.carry]

\* The exact product of a natural number and a sequence of bits.
RECURSIVE BitsTimes(_, _, _)
BitsTimes(b, n, carry) ==
    IF b = <<>> THEN IntBits(carry)
    ELSE IF (n * b[Len(b)] + carry) % 2 = 0
    THEN Append(BitsTimes(SubSeq(b, 1, Len(b) - 1), n,
                          (n * b[Len(b)] + carry) \div 2), 0)
    ELSE Append(BitsTimes(SubSeq(b, 1, Len(b) - 1), n,
                          (n * b[Len(b)] + carry) \div 2), 1)

\* The exact product as a float: 53 bits and the bits the rounding dropped.
RoundProduct(product) ==
    IF Len(product) <= 53 THEN [bits |-> product, carry |-> 0]
    ELSE RoundToDouble(product, \E n \in 55..Len(product) : product[n] = 1)

\* int() of the float of significand bits whose last bit weighs 2^w.
Truncate(bits, w) ==
    IF w >= 0 THEN BitsToInt(bits) * 2^w
    ELSE IF Len(bits) + w <= 0 THEN 0
    ELSE BitsToInt(SubSeq(bits, 1, Len(bits) + w))

\* int() of the float nearest to product, the last bit of which weighs
\* 2^(exp - 52).
IntOfFloat(product, exp) ==
    Truncate(RoundProduct(product).bits,
             exp - 52 + (IF Len(product) <= 53 THEN 0
                         ELSE Len(product) - 53 + RoundProduct(product).carry))

FloatTimes(d, n) == IntOfFloat(BitsTimes(d.bits, n, 0), d.exp)

\* int(actual_number * prob), prob a float: the product is rounded to a
\* float and then truncated, so that int(90 * 0.7) is 62.  (For products
\* below 2^31.)
IntOfProduct(actual_number, prob) ==
    IF actual_number = 0 \/ prob.num = 0 THEN 0
    ELSE FloatTimes(Double(prob.num, prob.den), actual_number)

\* The marker of a value of the generator that no call has turned into a
\* timestamp, a delay or a detector choice.
Unread == 0 - 1

\* What is known of one value of the stream of a seed: raw, the value where a
\* call read it for a timestamp, a delay or a detector choice; xy, whether the
\* (x, y) drawn from it and the next value left the loop of the uniform
\* position sampler; disp, the same for the displacement drawn from it and
\* the next two values.  An energy, a z or an nHit is taken and decides no
\* field of the model: it leaves a Blank.
Blank == [raw |-> Unread, xy |-> "unread", disp |-> "unread"]

Read(raw) == [Blank EXCEPT !.raw = raw]

\* The values the uniform position sampler takes when its loop makes turns
\* turns that are rejected and one that is accepted: x and y for each turn,
\* then z.
rng_uniform_cylinder(turns) ==
    [n \in 1..(2 * (turns + 1)) |->
        IF n % 2 = 0 THEN Blank
        ELSE [Blank EXCEPT !.xy = IF n = 2 * turns + 1 THEN "accepted"
                                  ELSE "rejected"]]
    \o <<Blank>>

\* The values the delayed position sampler takes: a displacement of three
\* values for each turn of its loop.
rng_correlated_expo_cylinder(turns) ==
    [n \in 1..(3 * (turns + 1)) |->
        IF n % 3 # 1 THEN Blank
        ELSE [Blank EXCEPT !.disp = IF n = 3 * turns + 1 THEN "accepted"
                                    ELSE "rejected"]]

\* The events whose physical quantities a call of count occurrences draws:
\* all of them, or only the first when Event(...) raises TypeError there.
Built(cls, count) ==
    IF EventArgs(cls) = EventFields \/ count = 0 THEN count ELSE 1

\* The number of values a call of generate_events with nargs arguments reads
\* for timestamps, delays and detectors: none when the call does not bind,
\* one per occurrence, for Correlated one more for its delay, for Muon one
\* more for the detector of each AD and shower event that is built.
Reads(et, nargs, duration_s) ==
    LET actual_number == actual_event_count(duration_s, et.rate_hz)
    IN  IF nargs # Arity(et.cls) \/ et.cls = "Bare" THEN 0
        ELSE IF et.cls = "Correlated" THEN 2 * actual_number
        ELSE IF et.cls = "Muon" /\ EventArgs(et.cls) = EventFields
        THEN actual_number + IntOfProduct(actual_number, et.prob_WP_and_AD)
                 + IntOfProduct(actual_number, et.prob_WP_and_shower)
        ELSE actual_number

\* The number of rejection loops the call enters: the prompt and the delayed
\* position of each pair of a Correlated, the position of each event a
\* Single builds.
Loops(et, nargs, duration_s) ==
    LET actual_number == actual_event_count(duration_s, et.rate_hz)
    IN  IF nargs # Arity(et.cls) THEN 0
        ELSE IF et.cls = "Correlated" THEN 2 * actual_number
        ELSE IF et.cls = "Single" THEN Built(et.cls, actual_number)
        ELSE 0

\* new_prompt_event and new_delayed_event of each pair in turn: the prompt
\* energy, the prompt position, the delayed energy, the delayed position;
\* turns holds the rejected turns of the two loops of each pair.
RECURSIVE PairsTaken(_)
PairsTaken(turns) ==
    IF turns = <<>> THEN <<>>
    ELSE <<Blank>> \o rng_uniform_cylinder(turns[1])
         \o <<Blank>> \o rng_correlated_expo_cylinder(turns[2])
         \o PairsTaken(SubSeq(turns, 3, Len(turns)))

\* Single.new_event of each event that is built: the energy, the position.
RECURSIVE SinglesTaken(_)
SinglesTaken(turns) ==
    IF turns = <<>> THEN <<>>
    ELSE <<Blank>> \o rng_uniform_cylinder(turns[1])
         \o SinglesTaken(Tail(turns))

\* The values a call of generate_events takes from the generator, in the
\* order it takes them: raws are the values it reads and turns the rejected
\* turns of each rejection loop it enters.  A Muon takes the nHit of each WP
\* event it builds, then the detector and the energy of each AD and shower
\* event; a Custom event type takes its timestamps only.
Taken(et, nargs, duration_s, raws, turns) ==
    LET actual_number == actual_event_count(duration_s, et.rate_hz)
        timestamps == [n \in 1..actual_number |-> Read(raws[n])]
    IN  IF nargs # Arity(et.cls) \/ et.cls = "Bare" THEN <<>>
        ELSE IF et.cls = "Correlated"
        THEN timestamps
             \o [n \in 1..actual_number |-> Read(raws[actual_number + n])]
             \o PairsTaken(turns)
        ELSE IF et.cls = "Single"
        THEN timestamps \o SinglesTaken(turns)
        ELSE IF et.cls = "Muon"
        THEN timestamps
             \o [n \in 1..Built(et.cls, actual_number) |-> Blank]
             \o [n \in 1..(2 * (Len(raws) - actual_number)) |->
                    IF n % 2 = 1
                    THEN Read(raws[actual_number + ((n + 1) \div 2)])
                    ELSE Blank]
        ELSE timestamps

\* The number of values a call of generate_events takes from the generator.
Draws(et, nargs, duration_s, turns) ==
    Len(Taken(et, nargs, duration_s,
              [n \in 1..Reads(et, nargs, duration_s) |-> 0], turns))

\* Mutant of CorrelatedEvents: the delayed event is put before its prompt
\* event.
CorrelatedEvents_delayed_first(et, src, duration_s, t0_s, raws) ==
    LET actual_number == actual_event_count(duration_s, et.rate_hz)
        start_ns == NsPerS * t0_s
        end_ns == start_ns + NsPerS * duration_s
    IN [n \in 1..(2 * actual_number) |->
           IF n % 2 = 0
           THEN Event(et.truth_label_prompt,
                      integers(raws[n \div 2], start_ns, end_ns),
                      et.detector, et.site, <<src, n>>)
           ELSE Event(et.truth_label_delayed,
                      integers(raws[(n + 1) \div 2], start_ns, end_ns)
                          + raws[actual_number + ((n + 1) \div 2)],
                      et.detector, et.site, <<src, n>>)]

\* Mutant of CorrelatedEvents: a delayed timestamp beyond the window is cut
\* to its last tick.
CorrelatedEvents_clamped(et, src, duration_s, t0_s, raws) ==
    LET actual_number == actual_event_count(duration_s, et.rate_hz)
        start_ns == NsPerS * t0_s
        end_ns == start_ns + NsPerS * duration_s
        time_delayed(n) == integers(raws[n], start_ns, end_ns)
                               + raws[actual_number + n]
    IN [n \in 1..(2 * actual_number) |->
           IF n % 2 = 1
           THEN Event(et.truth_label_prompt,
                      integers(raws[(n + 1) \div 2], start_ns, end_ns),
                      et.detector, et.site, <<src, n>>)
           ELSE Event(et.truth_label_delayed,
                      IF time_delayed(n \div 2) >= end_ns THEN end_ns - 1
                      ELSE time_delayed(n \div 2),
                      et.detector, et.site, <<src, n>>)]

\* Correlated.generate_events, the body: the prompt timestamps, then the
\* delays (an exponential draw cut to an integer, so never negative), then
\* for each pair the prompt event and the delayed event.
CorrelatedEvents(et, src, duration_s, t0_s, raws) ==
    LET actual_number == actual_event_count(duration_s, et.rate_hz)
        start_ns == NsPerS * t0_s
        end_ns == start_ns + NsPerS * duration_s
        times_prompt == [n \in 1..actual_number |->
                            integers(raws[n], start_ns, end_ns)]
        delays == [n \in 1..actual_number |-> raws[actual_number + n]]
    IN [n \in 1..(2 * actual_number) |->
           IF n % 2 = 1
           THEN Event(et.truth_label_prompt, times_prompt[(n + 1) \div 2],
                      et.detector, et.site, <<src, n>>)
           ELSE Event(et.truth_label_delayed,
                      times_prompt[n \div 2] + delays[n \div 2],
                      et.detector, et.site, <<src, n>>)]

\* Single.generate_events, the body: one event per timestamp drawn from
\* [0, duration_ns).  A Custom event type generates the same way.
SingleEvents(et, src, duration_s, raws) ==
    LET actual_number == actual_event_count(duration_s, et.rate_hz)
        duration_ns == NsPerS * duration_s
    IN [n \in 1..actual_number |->
           Event(et.truth_label, integers(raws[n], 0, duration_ns),
                 et.detector, et.site, <<src, n>>)]

\* rng.choice(avail_ads) on one raw value of the stream.
choice(raw, options) == options[1 + (raw % Len(options))]

\* Muon.generate_events: ad_delay.
ad_delay == 50

\* Muon.generate_events, the body: a WP event for every timestamp drawn from
\* [0, duration_ns), then an AD event for each of the first number_admuons
\* timestamps, then a shower event for each of the next number_showermuons,
\* both ad_delay later and in a detector chosen among avail_ads.
MuonEvents(et, src, duration_s, raws) ==
    LET actual_number == actual_event_count(duration_s, et.rate_hz)
        number_admuons == IntOfProduct(actual_number, et.prob_WP_and_AD)
        number_showermuons ==
            IntOfProduct(actual_number, et.prob_WP_and_shower)
        duration_ns == NsPerS * duration_s
        times_WP == [n \in 1..actual_number |->
                        integers(raws[n], 0, duration_ns)]
        Slice(lo, hi) ==
            SubSeq(times_WP, lo + 1,
                   IF hi > actual_number THEN actual_number ELSE hi)
        ad_times == Slice(0, number_admuons)
        shower_times ==
            Slice(number_admuons, number_admuons + number_showermuons)
    IN [n \in 1..actual_number |->
           Event(et.truth_label, times_WP[n], WP_detector, et.site,
                 <<src, n>>)]
       \o [n \in 1..Len(ad_times) |->
           Event(et.truth_label, ad_times[n] + ad_delay,
                 choice(raws[actual_number + n], et.avail_ads), et.site,
                 <<src, actual_number + n>>)]
       \o [n \in 1..Len(shower_times) |->
           Event(et.truth_label, shower_times[n] + ad_delay,
                 choice(raws[actual_number + Len(ad_times) + n],
                        et.avail_ads),
                 et.site, <<src, actual_number + Len(ad_times) + n>>)]

\* event_type.generate_events(*args) called with nargs arguments; raws are the
\* values the call reads for timestamps, delays and detectors (Taken tells
\* where in the stream they are) and src the index of the event type.
\* Correlated takes (rng, duration_s, t0_s) and the others
\* (rng, duration_s): a call with another number of arguments raises
\* TypeError before the body runs.  Single and Muon raise TypeError at their
\* first event, Event(...) being one value short.
generate_events(et, src, nargs, duration_s, t0_s, raws) ==
    IF nargs # Arity(et.cls)
    THEN [err |-> "TypeError", events |-> <<>>]
    ELSE IF et.cls = "Bare"
    THEN [err |-> "none", events |-> <<>>]
    ELSE IF et.cls = "Correlated"
    THEN [err |-> "none",
          events |-> CorrelatedEvents(et, src, duration_s, t0_s, raws)]
    ELSE IF EventArgs(et.cls) # EventFields
            /\ actual_event_count(duration_s, et.rate_hz) > 0
    THEN [err |-> "TypeError", events |-> <<>>]
    ELSE IF et.cls = "Muon"
    THEN [err |-> "none", events |-> MuonEvents(et, src, duration_s, raws)]
    ELSE [err |-> "none", events |-> SingleEvents(et, src, duration_s, raws)]

\* ------------------------------------------------------- truth lookup table
\* Python's order on the text labels of the model.
LabelRank(label) ==
    CASE label = "A" -> 1
      [] label = "A_delayed" -> 2
      [] label = "A_prompt" -> 3
      [] label = "B" -> 4
      [] label = "B_delayed" -> 5
      [] label = "B_prompt" -> 6
      [] OTHER -> 7

\* The (event type name, number, label) items in the order the two loops of
\* prep_truth_lookup visit them.
RECURSIVE LabelItems(_)
LabelItems(event_types) ==
    IF event_types = <<>> THEN <<>>
    ELSE LET et == Head(event_types)
             d == labels(et)
         IN [i \in 1..Len(d) |->
                [obj_name |-> et.name, number |-> d[i][1], label |-> d[i][2]]]
            \o LabelItems(Tail(event_types))

\* The test of one item: "number is None or number < 0 or not
\* isinstance(number, int)".  Comparing a str with 0 raises TypeError.
CheckNumber(number) ==
    IF number.tag = "none" THEN "InvalidLookupError"
    ELSE IF number.tag = "str" THEN "TypeError"
    ELSE IF number.v < 0 THEN "InvalidLookupError"
    ELSE IF number.tag # "int" THEN "InvalidLookupError"
    ELSE "none"

\* The index of the first item that stops the loop, 0 when none does.
RECURSIVE FirstBad(_, _)
FirstBad(items, i) ==
    IF i > Len(items) THEN 0
    ELSE IF CheckNumber(items[i].number) # "none" THEN i
    ELSE FirstBad(items, i + 1)

NoLookup == [err |-> "none", obj_name |-> "", label_name |-> "",
             supplied_number |-> None, numbers_by_label |-> <<>>,
             labels_by_number |-> <<>>, buf_size |-> 0, branches |-> <<>>,
             entries |-> 0]

Max(S) == CHOOSE m \in S : \A x \in S : x <= m

\* Mutant of max_label_length: an empty list has maximum 0.
max_label_length_default(numbers_by_label) ==
    IF numbers_by_label = <<>> THEN [err |-> "none", v |-> 0]
    ELSE [err |-> "none",
          v |-> Max({Len(numbers_by_label[n][1]) :
                        n \in 1..Len(numbers_by_label)})]

\* max(len(x[0]) for x in numbers_by_label): max() of no value raises
\* ValueError.
max_label_length(numbers_by_label) ==
    IF numbers_by_label = <<>> THEN [err |-> "ValueError", v |-> 0]
    ELSE [err |-> "none",
          v |-> Max({Len(numbers_by_label[n][1]) :
                        n \in 1..Len(numbers_by_label)})]

\* "_{}".format(number), the name of the branch of a lookup number.
NumberName(number) == "_" \o ToString(number.v)

\* The attributes of the TreeBuffer after the two setattr loops: an
\* attribute set twice keeps the value set last.  attrs is the list of
\* (name, value) in the order of the setattr calls.
RECURSIVE BufGet(_, _)
BufGet(attrs, name) ==
    IF attrs[Len(attrs)][1] = name THEN attrs[Len(attrs)][2]
    ELSE BufGet(SubSeq(attrs, 1, Len(attrs) - 1), name)

\* The branches of MCTruthLookup in the order of the two Branch loops, each
\* with the buffer its name has in the TreeBuffer.
Branches(numbers_by_label, labels_by_number) ==
    LET attrs == [n \in 1..Len(numbers_by_label) |->
                     <<numbers_by_label[n][1], numbers_by_label[n][2]>>]
                 \o [n \in 1..Len(labels_by_number) |->
                     <<NumberName(labels_by_number[n][1]),
                       labels_by_number[n][2]>>]
    IN [n \in 1..Len(attrs) |->
           [name |-> attrs[n][1], value |-> BufGet(attrs, attrs[n][1])]]

\* MCOutput.prep_truth_lookup: the two sorted lists become the branches of
\* the MCTruthLookup tree, which is filled once.
prep_truth_lookup(event_types) ==
    LET items == LabelItems(event_types)
        bad == FirstBad(items, 1)
        nbl == Vals(ListSort([i \in 1..Len(items) |->
                 [key |-> <<LabelRank(items[i].label), items[i].number.v>>,
                  val |-> <<items[i].label, items[i].number>>]]))
        lbn == Vals(ListSort([i \in 1..Len(items) |->
                 [key |-> <<items[i].number.v, LabelRank(items[i].label)>>,
                  val |-> <<items[i].number, items[i].label>>]]))
    IN  IF bad # 0 /\ CheckNumber(items[bad].number) = "InvalidLookupError"
        THEN [NoLookup EXCEPT !.err = "InvalidLookupError",
                              !.obj_name = items[bad].obj_name,
                              !.label_name = items[bad].label,
                              !.supplied_number = items[bad].number]
        ELSE IF bad # 0
        THEN [NoLookup EXCEPT !.err = "TypeError"]
        ELSE IF max_label_length(nbl).err # "none"
        THEN [NoLookup EXCEPT !.err = max_label_length(nbl).err]
        ELSE [NoLookup EXCEPT
                !.numbers_by_label = nbl,
                !.labels_by_number = lbn,
                !.buf_size = max_label_length(nbl).v + 1,
                !.branches = Branches(nbl, lbn),
                !.entries = 1]

\* ------------------------------------------------ positions and WP nHit
\* rng.uniform(-R, R): a coordinate of the half-open interval [-R, R), in
\* position steps.
Coordinates == (0 - RadiusSteps)..(RadiusSteps - 1)

\* Mutant of Displacements: a displacement is never 0.
Displacements_positive == 1..MaxDisp

\* rng.exponential(scale): a displacement of [0, inf) along one axis, in
\* position steps; 0 stands for the draws too small to change the sum
\* prompt + displacement (0.0 itself among them).
Displacements == 0..MaxDisp

\* Mutant of OutsideCylinder: only x is compared with the radius.
OutsideCylinder_x_only(x, y) == x * x > RadiusSteps * RadiusSteps

\* math.hypot(x, y) > R, the test of the rejection loops.
OutsideCylinder(x, y) == x * x + y * y > RadiusSteps * RadiusSteps

NoPosition == [phase |-> "idle", cls |-> "", x |-> 0, y |-> 0,
               prompt |-> <<0, 0>>, redrawn |-> FALSE]

\* Muon.WP_nHit_spectrum: lambda rng: rng.integers(15, 100).
WP_nHit_low == 15
WP_nHit_high == 100
WP_nHit_spectrum(raw) == integers(raw, WP_nHit_low, WP_nHit_high)

NoNHit == [called |-> FALSE, raw |-> 0, value |-> 0]

\* ------------------------------------------------------------------ state
VARIABLES
    outfile,      \* the TFile: [is_open, writes]
    event_types,  \* ToyMC.event_types
    duration,     \* ToyMC.duration, in seconds
    seed,         \* the seed argument of ToyMC(...), None when not given
    rng,          \* ToyMC.rng: [seed, pos], pos raw values already taken
    pc,           \* where run() is: "idle" before the first call, then
                  \* "gen", "sort", "emit", and "done" or "failed" on return
    i,            \* index of the running loop of run()
    events,       \* the local list events of run()
    output,       \* the MCOutput of run(): lookup, tree entries, events added
    err,          \* the exception run() raised, "none" otherwise
    calls,        \* the calls run() has made, in order, since it was entered
    runs,         \* calls of run() on this ToyMC
    run_types,    \* event_types as they were when run() was last entered
    stream,       \* what each seed has produced so far, value by value
    toymcs,       \* ToyMC objects constructed so far
    prev,         \* what the previous ToyMC object was given and did
    position,     \* a position being sampled: the loop it is in, x, y, prompt
    nhit,         \* the last call of WP_nHit_spectrum: raw value and result
    finalized     \* calls of finalize() the script has made on this ToyMC

vars == <<outfile, event_types, duration, seed, rng, pc, i, events, output,
          err, calls, runs, run_types, stream, toymcs, prev, position, nhit,
          finalized>>

Seeds == {1, 2}
SeedArgs == {None} \cup {PyInt(sd) : sd \in Seeds}
Durations == {1, 2}
Raws == 0..(MaxRaw - 1)
Returned == {"idle", "done", "failed"}

\* The event types the scripts of the model register.
Catalogue ==
    { Custom("A", 1, 1, 1, PyInt(1)),
      Custom("B", 1, 1, 2, PyInt(2)),
      Custom("B", 0, 1, 2, PyInt(2)),
      Custom("A", 1, 1, 1, None),
      Correlated("B", 1, 1, 1, PyInt(3), PyInt(4)),
      Bare("A", 1, 1, 1) }

NoOutput == [lookup |-> NoLookup, reco |-> 0, calib |-> 0, truth |-> <<>>,
             added |-> <<>>]

NoPrev == [ran |-> FALSE, seed |-> None, duration |-> 0, run_types |-> <<>>,
           pc |-> "idle", err |-> "none", events |-> <<>>, added |-> <<>>]

\* Mutant of default_rng: the seed argument is dropped, the system always
\* picks.
default_rng_unseeded(sd, picked) == [seed |-> picked, pos |-> 0]

\* default_rng(seed): the stream of the seed from its start; without a seed
\* the system picks one.
default_rng(sd, picked) ==
    [seed |-> IF sd = None THEN picked ELSE sd.v, pos |-> 0]

\* ToyMC.__init__.
ToyMCInit(d, sd, picked) ==
    /\ outfile = [is_open |-> TRUE, writes |-> 0]
    /\ event_types = <<>>
    /\ duration = d
    /\ seed = sd
    /\ rng = default_rng(sd, picked)
    /\ pc = "idle"
    /\ i = 0
    /\ events = <<>>
    /\ output = NoOutput
    /\ err = "none"
    /\ calls = <<>>
    /\ runs = 0
    /\ run_types = <<>>

Init ==
    /\ \E d \in Durations, sd \in SeedArgs, picked \in Seeds :
          ToyMCInit(d, sd, picked)
    /\ stream = [sd \in Seeds |-> <<>>]
    /\ toymcs = 1
    /\ prev = NoPrev
    /\ position = NoPosition
    /\ nhit = NoNHit
    /\ finalized = 0

\* A script drops its ToyMC after one run() and constructs a second one.
NewToyMC(d, sd, picked) ==
    /\ pc \in {"done", "failed"}
    /\ runs = 1
    /\ toymcs = 1
    /\ toymcs' = toymcs + 1
    /\ prev' = [ran |-> TRUE, seed |-> seed, duration |-> duration,
                run_types |-> run_types, pc |-> pc, err |-> err,
                events |-> events, added |-> output.added]
    /\ outfile' = [is_open |-> TRUE, writes |-> 0]
    /\ event_types' = <<>>
    /\ duration' = d
    /\ seed' = sd
    /\ rng' = default_rng(sd, picked)
    /\ pc' = "idle"
    /\ i' = 0
    /\ events' = <<>>
    /\ output' = NoOutput
    /\ err' = "none"
    /\ calls' = <<>>
    /\ runs' = 0
    /\ run_types' = <<>>
    /\ finalized' = 0
    /\ UNCHANGED <<stream, position, nhit>>

\* ToyMC.add_event_type: no test of whether run() was called.
add_event_type(event_type) ==
    /\ pc \in Returned
    /\ Len(event_types) < MaxTypes
    /\ event_types' = Append(event_types, event_type)
    /\ UNCHANGED <<outfile, duration, seed, rng, pc, i, events, output, err,
                   calls, runs, run_types, stream, toymcs, prev, position,
                   nhit, finalized>>

Call(op, et, args) == [op |-> op, et |-> et, args |-> args]

\* Mutant of run_MCOutput: the lookup table is not built when run() starts.
run_MCOutput_no_lookup ==
    /\ pc \in Returned
    /\ runs < MaxRuns
    /\ runs' = runs + 1
    /\ run_types' = event_types
    /\ output' = NoOutput
    /\ err' = "none"
    /\ pc' = "gen"
    /\ calls' = <<>>
    /\ events' = <<>>
    /\ i' = 1
    /\ UNCHANGED <<outfile, event_types, duration, seed, rng, stream, toymcs,
                   prev, position, nhit, finalized>>

\* run(), first statement: MCOutput(...), whose __init__ prepares the trees
\* and builds the lookup table from event_types.
run_MCOutput ==
    /\ pc \in Returned
    /\ runs < MaxRuns
    /\ runs' = runs + 1
    /\ run_types' = event_types
    /\ LET lookup == prep_truth_lookup(event_types)
       IN /\ output' = [NoOutput EXCEPT !.lookup = lookup]
          /\ err' = lookup.err
          /\ pc' = IF lookup.err = "none" THEN "gen" ELSE "failed"
    /\ calls' = << Call("prep_truth_lookup", 0, <<>>) >>
    /\ events' = <<>>
    /\ i' = 1
    /\ UNCHANGED <<outfile, event_types, duration, seed, rng, stream, toymcs,
                   prev, position, nhit, finalized>>

\* Two accounts of one value of the stream do not contradict each other.
Agree(a, b) ==
    /\ a.raw = Unread \/ b.raw = Unread \/ a.raw = b.raw
    /\ a.xy = "unread" \/ b.xy = "unread" \/ a.xy = b.xy
    /\ a.disp = "unread" \/ b.disp = "unread" \/ a.disp = b.disp

\* What the two accounts tell together.
Merge(a, b) ==
    [raw |-> IF a.raw = Unread THEN b.raw ELSE a.raw,
     xy |-> IF a.xy = "unread" THEN b.xy ELSE a.xy,
     disp |-> IF a.disp = "unread" THEN b.disp ELSE a.disp]

\* The values taken at positions pos+1 .. pos+n of the stream of rng.seed
\* agree with what the stream has already produced.
Replays(taken) ==
    \A j \in 1..Len(taken) :
        rng.pos + j <= Len(stream[rng.seed]) =>
            Agree(stream[rng.seed][rng.pos + j], taken[j])

Reveal(taken) ==
    LET old == stream[rng.seed]
    IN [stream EXCEPT ![rng.seed] =
           [j \in 1..(IF rng.pos + Len(taken) > Len(old)
                      THEN rng.pos + Len(taken) ELSE Len(old)) |->
               IF j <= rng.pos \/ j > rng.pos + Len(taken) THEN old[j]
               ELSE IF j <= Len(old) THEN Merge(old[j], taken[j - rng.pos])
               ELSE taken[j - rng.pos]]]

\* The values of a stream that some call has read.
ReadCount(s) == Cardinality({j \in 1..Len(s) : s[j].raw # Unread})

\* The rejected turns of each of loops rejection loops, MaxTurns at most in
\* all.
RECURSIVE Total(_)
Total(turns) == IF turns = <<>> THEN 0 ELSE turns[1] + Total(Tail(turns))

Turns(loops) ==
    {turns \in [1..loops -> 0..MaxTurns] : Total(turns) <= MaxTurns}

\* The turns of rejection loops that a stream is known to have rejected.
RejectedCount(s) ==
    Cardinality({j \in 1..Len(s) : s[j].xy = "rejected"})
        + Cardinality({j \in 1..Len(s) : s[j].disp = "rejected"})

\* run(), one turn of "for event_type in self.event_types": the call
\* generate_events(self.rng, self.duration) and events.extend.  The generator
\* moves on by every value the call takes, also when the call raises.
run_generate ==
    /\ pc = "gen"
    /\ i <= Len(event_types)
    /\ LET et == event_types[i]
           n == Reads(et, 2, duration)
           loops == Loops(et, 2, duration)
       IN \E raws \in [1..n -> Raws], turns \in Turns(loops) :
               /\ LET taken == Taken(et, 2, duration, raws, turns)
                  IN /\ Replays(taken)
                     /\ stream' = Reveal(taken)
                     /\ ReadCount(stream'[rng.seed]) <= MaxDraws
                     /\ RejectedCount(stream'[rng.seed]) <= MaxTurns
                     /\ rng' = [rng EXCEPT !.pos = rng.pos + Len(taken)]
               /\ LET r == generate_events(et, i, 2, duration, 0, raws)
                  IN /\ err' = r.err
                     /\ pc' = IF r.err = "none" THEN "gen" ELSE "failed"
                     /\ events' = events \o r.events
    /\ calls' = Append(calls, Call("generate_events", i, <<"rng", "duration">>))
    /\ i' = i + 1
    /\ UNCHANGED <<outfile, event_types, duration, seed, output, runs,
                   run_types, toymcs, prev, position, nhit, finalized>>

\* Mutant of SortedByTimestamp: the sort is left out.
NotSorted(evs) == evs

\* Mutant of SortedByTimestamp: a sort that is not stable, equal timestamps
\* come out in reverse generation order.
SortedTiesReversed(evs) ==
    Vals(ListSort([j \in 1..Len(evs) |->
        [key |-> <<evs[j].timestamp, 0 - j>>, val |-> evs[j]]]))

\* events.sort(key=attrgetter("timestamp")).
SortedByTimestamp(evs) ==
    Vals(ListSort([j \in 1..Len(evs) |->
        [key |-> <<evs[j].timestamp, 0>>, val |-> evs[j]]]))

run_sort ==
    /\ pc = "gen"
    /\ i > Len(event_types)
    /\ events' = SortedByTimestamp(events)
    /\ pc' = "emit"
    /\ i' = 1
    /\ UNCHANGED <<outfile, event_types, duration, seed, rng, output, err,
                   calls, runs, run_types, stream, toymcs, prev, position,
                   nhit, finalized>>

\* MCOutput.add(event): the buffers are assigned, then event.truth_label is
\* read.  An Event has a field truth_index and none called truth_label, so
\* the read raises AttributeError and no tree is filled.
HasAttr(event, name) == name \in DOMAIN event

add(out, event) ==
    IF HasAttr(event, "truth_label")
    THEN [err |-> "none",
          out |-> [out EXCEPT !.reco = out.reco + 1,
                              !.calib = out.calib + 1,
                              !.truth = Append(out.truth, event.truth_label),
                              !.added = Append(out.added, event)]]
    ELSE [err |-> "AttributeError",
          out |-> [out EXCEPT !.added = Append(out.added, event)]]

\* run(), one turn of "for event in events: output.add(event)".
run_add ==
    /\ pc = "emit"
    /\ i <= Len(events)
    /\ LET r == add(output, events[i])
       IN /\ output' = r.out
          /\ err' = r.err
          /\ pc' = IF r.err = "none" THEN "emit" ELSE "failed"
    /\ calls' = Append(calls, Call("add", i, <<"event">>))
    /\ i' = i + 1
    /\ UNCHANGED <<outfile, event_types, duration, seed, rng, events, runs,
                   run_types, stream, toymcs, prev, position, nhit,
                   finalized>>

\* Mutant of run_finalize: finalize in a "finally:" clause, reached after an
\* exception too.
run_finalize_finally ==
    /\ \/ pc = "emit" /\ i > Len(events)
       \/ pc = "failed" /\ \A n \in 1..Len(calls) : calls[n].op # "finalize"
    /\ outfile' = [is_open |-> FALSE, writes |-> outfile.writes + 1]
    /\ calls' = Append(calls, Call("finalize", 0, <<>>))
    /\ pc' = "done"
    /\ UNCHANGED <<event_types, duration, seed, rng, i, events, output, err,
                   runs, run_types, stream, toymcs, prev, position, nhit,
                   finalized>>

\* run(), last statement: self.finalize(), which writes and closes the file.
run_finalize ==
    /\ pc = "emit"
    /\ i > Len(events)
    /\ outfile' = [is_open |-> FALSE, writes |-> outfile.writes + 1]
    /\ calls' = Append(calls, Call("finalize", 0, <<>>))
    /\ pc' = "done"
    /\ UNCHANGED <<event_types, duration, seed, rng, i, events, output, err,
                   runs, run_types, stream, toymcs, prev, position, nhit,
                   finalized>>

\* ToyMC.finalize() called by the script, before run() or after it has
\* returned or raised: the file is written and closed, whatever its state.
finalize ==
    /\ pc \in Returned
    /\ finalized < MaxFinalize
    /\ finalized' = finalized + 1
    /\ outfile' = [is_open |-> FALSE, writes |-> outfile.writes + 1]
    /\ UNCHANGED <<event_types, duration, seed, rng, pc, i, events, output, err,
                   calls, runs, run_types, stream, toymcs, prev, position,
                   nhit>>

Next ==
    \/ \E et \in Catalogue : add_event_type(et)
    \/ run_MCOutput
    \/ run_generate
    \/ run_sort
    \/ run_add
    \/ run_finalize
    \/ finalize

Spec == Init /\ [][Next]_vars

\* A script executed again and again: it builds a ToyMC, registers its event
\* types, calls run() once and drops the ToyMC; the next execution repeats
\* the same statements, so the duration and seed arguments and the event
\* types and their order are those of the first.
Replaying == prev.ran

NextRerun ==
    \/ \E et \in Catalogue :
          /\ pc = "idle"
          /\ Replaying =>
                /\ Len(event_types) < Len(prev.run_types)
                /\ et = prev.run_types[Len(event_types) + 1]
          /\ add_event_type(et)
    \/ /\ pc = "idle"
       /\ Replaying => event_types = prev.run_types
       /\ run_MCOutput
    \/ run_generate
    \/ run_sort
    \/ run_add
    \/ run_finalize
    \/ \E picked \in Seeds : NewToyMC(duration, seed, picked)

SpecRerun == Init /\ [][NextRerun]_vars

\* ------------------------------------------- the lookup table on its own
Codes == {None, PyInt(0 - 1), PyInt(1), PyInt(2), PyFloat(3), PyStr}
PairCodes == {None, PyInt(0 - 1), PyInt(1), PyInt(2), PyFloat(2)}
Names == {"A", "B"}

LookupCatalogue ==
    {Custom(name, 0, 1, 1, c) : name \in Names, c \in Codes}
    \cup {Correlated(name, 1, 1, 0, p, d) :
              name \in Names, p \in PairCodes, d \in PairCodes}

InitLookup ==
    /\ ToyMCInit(1, PyInt(1), 1)
    /\ stream = [sd \in Seeds |-> <<>>]
    /\ toymcs = 1
    /\ prev = NoPrev
    /\ position = NoPosition
    /\ nhit = NoNHit
    /\ finalized = 0

\* Event types are registered, then run() constructs its MCOutput.
NextLookup ==
    \/ \E et \in LookupCatalogue : pc = "idle" /\ add_event_type(et)
    \/ pc = "idle" /\ run_MCOutput

SpecLookup == InitLookup /\ [][NextLookup]_vars

\* --------------------------------------- the built-in classes on their own
\* The statement "x = Cls(...)" of a script; the object is kept in
\* event_types.
new_event_type(et) ==
    /\ pc = "idle"
    /\ event_types = <<>>
    /\ calls = <<>>
    /\ calls' = << [op |-> "__init__", et |-> 0, args |-> <<et.cls>>,
                    obj |-> et] >>
    /\ err' = InitError(et)
    /\ IF InitError(et) = "none"
       THEN event_types' = <<et>> /\ pc' = "built"
       ELSE event_types' = <<>> /\ pc' = "failed"
    /\ UNCHANGED <<outfile, duration, seed, rng, i, events, output, runs,
                   run_types, stream, toymcs, prev, position, nhit,
                   finalized>>

\* x.generate_events(rng, duration_s) or, for a Correlated,
\* x.generate_events(rng, duration_s, t0_s), called by the script itself.
call_generate_events(t0_s) ==
    /\ pc = "built"
    /\ LET et == event_types[1]
           n == Reads(et, Arity(et.cls), duration)
           loops == Loops(et, Arity(et.cls), duration)
       IN \E raws \in [1..n -> Raws], turns \in Turns(loops) :
               /\ LET taken == Taken(et, Arity(et.cls), duration, raws,
                                     turns)
                  IN /\ Replays(taken)
                     /\ stream' = Reveal(taken)
                     /\ ReadCount(stream'[rng.seed]) <= MaxDraws
                     /\ RejectedCount(stream'[rng.seed]) <= MaxTurns
                     /\ rng' = [rng EXCEPT !.pos = rng.pos + Len(taken)]
               /\ LET r == generate_events(et, 1, Arity(et.cls), duration,
                                           t0_s, raws)
                  IN /\ err' = r.err
                     /\ pc' = IF r.err = "none" THEN "returned" ELSE "failed"
                     /\ events' = r.events
    /\ calls' = Append(calls,
                       [op |-> "generate_events", et |-> 1,
                        args |-> IF Arity(event_types[1].cls) = 3
                                 THEN <<"rng", "duration_s", "t0_s">>
                                 ELSE <<"rng", "duration_s">>,
                        t0_s |-> t0_s])
    /\ UNCHANGED <<outfile, event_types, duration, seed, i, output, runs,
                   run_types, toymcs, prev, position, nhit, finalized>>

StartTimes == {0, 1}

\* The objects a script builds; a Muon with its default probabilities, with
\* prob_WP_and_AD set to 0.5 and prob_WP_and_shower to 0, or with both set to
\* 0.75.
BuiltinCatalogue ==
    {Single(name, r, 1, 1) : name \in Names, r \in {0, 1}}
    \cup {Muon(name, site, r) :
              name \in Names, site \in {1, 3, 4}, r \in {0, 1}}
    \cup {[Muon("A", 1, r) EXCEPT !.prob_WP_and_AD = Prob(1, 2),
                                  !.prob_WP_and_shower = Prob(0, 1)] :
              r \in {0, 1}}
    \cup {[Muon("A", 1, r) EXCEPT !.prob_WP_and_AD = Prob(3, 4),
                                  !.prob_WP_and_shower = Prob(3, 4)] :
              r \in {0, 1}}
    \cup {Correlated(name, 1, det, r, p, d) :
              name \in Names, det \in {1, 2}, r \in {0, 1},
              p \in {None, PyInt(1), PyInt(2)}, d \in {None, PyInt(1), PyInt(2)}}

NextGen ==
    \/ \E et \in BuiltinCatalogue : new_event_type(et)
    \/ \E t0_s \in StartTimes : call_generate_events(t0_s)

SpecGen == Init /\ [][NextGen]_vars

\* ------------------------------------------------- positions on their own
\* The values physical_x and physical_y are given before the loop and the
\* radius they are tested against: 50 and 2 in Single, 2000 and 2000 in
\* Correlated.
Single_start == 50
Single_radius == 2
Correlated_start == 2000
Correlated_radius == 2000

\* The start value in position steps, RadiusSteps of them to the radius.
StartCoordinate(cls) ==
    IF cls = "Single" THEN (Single_start * RadiusSteps) \div Single_radius
    ELSE (Correlated_start * RadiusSteps) \div Correlated_radius

\* The position of an event is asked for: physical_x and physical_y start
\* outside the cylinder, at (25 R, 25 R) for a Single and at (R, R) for a
\* Correlated, so that the loop is entered.
start_position(cls) ==
    /\ position.phase \in {"idle", "returned"}
    /\ position' = [NoPosition EXCEPT !.phase = "uniform", !.cls = cls,
                                      !.x = StartCoordinate(cls),
                                      !.y = StartCoordinate(cls)]
    /\ UNCHANGED <<outfile, event_types, duration, seed, rng, pc, i, events,
                   output, err, calls, runs, run_types, stream, toymcs, prev,
                   nhit, finalized>>

\* One turn of "while math.hypot(physical_x, physical_y) > R": x and y are
\* drawn again, both uniform in [-R, R).
draw_uniform(x, y) ==
    /\ position.phase = "uniform"
    /\ OutsideCylinder(position.x, position.y)
    /\ position' = [position EXCEPT !.x = x, !.y = y,
                                    !.redrawn = (position.x \in Coordinates)]
    /\ UNCHANGED <<outfile, event_types, duration, seed, rng, pc, i, events,
                   output, err, calls, runs, run_types, stream, toymcs, prev,
                   nhit, finalized>>

\* The loop ends: a Single has its position; for a Correlated the position
\* is that of the prompt event and is handed to the delayed event.
accept_uniform ==
    /\ position.phase = "uniform"
    /\ ~OutsideCylinder(position.x, position.y)
    /\ position' = IF position.cls = "Correlated"
                   THEN [position EXCEPT !.phase = "displace",
                                         !.prompt = <<position.x, position.y>>,
                                         !.redrawn = FALSE]
                   ELSE [position EXCEPT !.phase = "returned"]
    /\ UNCHANGED <<outfile, event_types, duration, seed, rng, pc, i, events,
                   output, err, calls, runs, run_types, stream, toymcs, prev,
                   nhit, finalized>>

\* The delayed position: a displacement is drawn for each axis and added to
\* the prompt position, once before the loop and once in every turn of
\* "while math.hypot(physical_x, physical_y) > R".
draw_displacement(dx, dy) ==
    /\ \/ position.phase = "displace"
       \/ /\ position.phase = "delayed"
          /\ OutsideCylinder(position.x, position.y)
    /\ position' = [position EXCEPT !.phase = "delayed",
                                    !.x = position.prompt[1] + dx,
                                    !.y = position.prompt[2] + dy,
                                    !.redrawn = (position.phase = "delayed")]
    /\ UNCHANGED <<outfile, event_types, duration, seed, rng, pc, i, events,
                   output, err, calls, runs, run_types, stream, toymcs, prev,
                   nhit, finalized>>

\* The loop of the delayed position ends.
accept_delayed ==
    /\ position.phase = "delayed"
    /\ ~OutsideCylinder(position.x, position.y)
    /\ position' = [position EXCEPT !.phase = "returned"]
    /\ UNCHANGED <<outfile, event_types, duration, seed, rng, pc, i, events,
                   output, err, calls, runs, run_types, stream, toymcs, prev,
                   nhit, finalized>>

InitPosition ==
    /\ ToyMCInit(1, PyInt(1), 1)
    /\ stream = [sd \in Seeds |-> <<>>]
    /\ toymcs = 1
    /\ prev = NoPrev
    /\ position = NoPosition
    /\ nhit = NoNHit
    /\ finalized = 0

NextPosition ==
    \/ \E cls \in {"Single", "Correlated"} : start_position(cls)
    \/ \E x \in Coordinates, y \in Coordinates : draw_uniform(x, y)
    \/ accept_uniform
    \/ \E dx \in Displacements, dy \in Displacements : draw_displacement(dx, dy)
    \/ accept_delayed

SpecPosition == InitPosition /\ [][NextPosition]_vars

\* A displacement is drawn that puts the delayed position inside the
\* cylinder.
draw_accepted_displacement ==
    \E dx \in Displacements, dy \in Displacements :
        /\ draw_displacement(dx, dy)
        /\ ~OutsideCylinder(position'.x, position'.y)

\* Fair sampling: a displacement that can be drawn in every turn of the loop
\* is drawn in some turn, and a loop whose test fails is left.
SpecPositionFair ==
    /\ SpecPosition
    /\ WF_vars(draw_accepted_displacement)
    /\ WF_vars(accept_delayed)

\* -------------------------------------------------- WP nHit on its own
\* WP_nHit_spectrum(rng) called by WP_physical_quantities; raw is the value
\* the generator hands out for the call, any of its values at any call.
call_WP_nHit_spectrum(raw) ==
    /\ nhit' = [called |-> TRUE, raw |-> raw, value |-> WP_nHit_spectrum(raw)]
    /\ UNCHANGED <<outfile, event_types, duration, seed, rng, pc, i, events,
                   output, err, calls, runs, run_types, stream, toymcs, prev,
                   position, finalized>>

NHitRaws == 0..(MaxNHitRaw - 1)

NextNHit == \E raw \in NHitRaws : call_WP_nHit_spectrum(raw)

SpecNHit == InitPosition /\ [][NextNHit]_vars

\* Fair sampling: the spectrum is called again and again, and every value
\* the generator can hand out is handed out at some call.
SpecNHitFair ==
    SpecNHit /\ \A raw \in NHitRaws : WF_vars(call_WP_nHit_spectrum(raw))

\* ----------------------------------------------------------------- claims
\* run() has sorted its list: it is handing the events out, has finished, or
\* was stopped by add.
Sorted == pc \in {"emit", "done"} \/ (pc = "failed" /\ err = "AttributeError")

\* The events handed to MCOutput.add so far are the first ones of the list.
AddedIsPrefix ==
    /\ Len(output.added) <= Len(events)
    /\ \A j \in 1..Len(output.added) : output.added[j] = events[j]

\* (event type index, index in its list): the order of generation.
OidLess(a, b) == a[1] < b[1] \/ (a[1] = b[1] /\ a[2] < b[2])

\* C1: the records run() hands to MCOutput.add are in non-decreasing
\* timestamp order: the list run() iterates over is sorted by timestamp, and
\* add receives its elements from the first on, in that order.
C1_NonDecreasingTimestamps ==
    /\ AddedIsPrefix
    /\ Sorted =>
          \A j \in 1..(Len(events) - 1) :
              events[j].timestamp <= events[j + 1].timestamp

\* C1 witness: run() generated a later event before an earlier one, sorted
\* them and handed the earlier one to add.
C1_Witness ==
    /\ Sorted
    /\ Len(events) >= 2
    /\ Len(output.added) = 1
    /\ events[1].timestamp < events[2].timestamp
    /\ OidLess(events[2].oid, events[1].oid)

\* C2: events with equal timestamps keep their generation order: the one of
\* the earlier-registered event type first, and within one event type the one
\* earlier in the list generate_events returned.
C2_TiesInGenerationOrder ==
    Sorted =>
        \A a, b \in 1..Len(events) :
            (a < b /\ events[a].timestamp = events[b].timestamp)
                => OidLess(events[a].oid, events[b].oid)

\* C2 witness: a sorted list with a tie between two event types and a tie
\* inside one event type, placed after an event that was generated later.
C2_Witness ==
    /\ Sorted
    /\ \E a, b \in 1..Len(events) :
          /\ a < b
          /\ events[a].timestamp = events[b].timestamp
          /\ events[a].oid[1] < events[b].oid[1]
    /\ \E a, b \in 1..Len(events) :
          /\ a < b
          /\ events[a].timestamp = events[b].timestamp
          /\ events[a].oid[1] = events[b].oid[1]
    /\ \E a, b \in 1..Len(events) :
          /\ a < b
          /\ events[a].timestamp < events[b].timestamp
          /\ OidLess(events[b].oid, events[a].oid)

\* The calls of one kind that run() has made since it was entered.
CallsOf(op) == {n \in 1..Len(calls) : calls[n].op = op}

\* C3: a script executed twice with the same event types in the same order,
\* the same duration and the same seed sorts and hands out the same events and
\* ends the same way; the generator of the ToyMC is the one of the seed, and
\* the timestamp of each event of the run was read from a value the run took
\* from it.
C3_SameSeedSameEvents ==
    /\ (seed # None) => rng.seed = seed.v
    /\ (runs = 1 /\ pc \in {"done", "failed"}) =>
          \A n \in 1..Len(events) :
              \E j \in 1..rng.pos :
                  /\ stream[rng.seed][j].raw # Unread
                  /\ events[n].timestamp
                         = integers(stream[rng.seed][j].raw, 0,
                                    NsPerS * duration)
    /\ ( /\ prev.ran
         /\ runs = 1
         /\ pc \in {"done", "failed"}
         /\ seed # None
         /\ prev.seed = seed
         /\ prev.duration = duration
         /\ prev.run_types = run_types )
       => /\ events = prev.events
          /\ output.added = prev.added
          /\ pc = prev.pc
          /\ err = prev.err

\* C3 witness: the second execution, with a seed, has sorted two events of
\* different timestamps and handed out the first, as the first execution did.
C3_Witness ==
    /\ prev.ran
    /\ runs = 1
    /\ pc = "failed"
    /\ err = "AttributeError"
    /\ seed # None
    /\ prev.seed = seed
    /\ prev.duration = duration
    /\ prev.run_types = run_types
    /\ Len(events) >= 2
    /\ events[1].timestamp # events[2].timestamp
    /\ Len(output.added) = 1

\* C4 (as claimed): every generate_events call of run() passes the generator,
\* the duration and the start time t0, and the call on a built-in event type
\* returns.
C4_GenerateWithT0Succeeds ==
    \A n \in CallsOf("generate_events") :
        /\ calls[n].args = <<"rng", "duration", "t0">>
        /\ (n = Len(calls) /\ run_types[calls[n].et].cls = "Correlated")
              => err = "none"

\* C7: finalize is requested only by a run() in which the lookup table was
\* built, generate_events returned for every event type, and add returned for
\* every event; a run() that raised has not requested it, and the file is
\* written and closed only by the calls of finalize() the script makes itself.
C7_FinalizeOnlyAfterSuccess ==
    /\ (CallsOf("finalize") # {}) =>
          /\ pc = "done"
          /\ err = "none"
          /\ output.lookup.err = "none"
          /\ output.lookup.entries = 1
          /\ Cardinality(CallsOf("generate_events")) = Len(run_types)
          /\ Cardinality(CallsOf("add")) = Len(events)
          /\ output.reco = Len(events)
          /\ calls[Len(calls)].op = "finalize"
    /\ (pc = "failed") => (err # "none" /\ CallsOf("finalize") = {})
    /\ (runs <= 1 /\ pc # "done") =>
          outfile = [is_open |-> finalized = 0, writes |-> finalized]

\* C7 witness: a run() stopped by add, one stopped by generate_events or by
\* the lookup table, leaves the file open and unwritten.
C7_Witness ==
    /\ pc = "failed"
    /\ err = "AttributeError"
    /\ Len(output.added) = 1
    /\ finalized = 0
    /\ outfile = [is_open |-> TRUE, writes |-> 0]

\* C8 (as claimed): run() builds the lookup table after every generate_events
\* call.
C8_LookupAfterGeneration ==
    \A g \in CallsOf("generate_events"), t \in CallsOf("prep_truth_lookup") :
        g < t

\* C8 (amended): run() builds the lookup table first, in the constructor of
\* its MCOutput: before any generate_events call, before the sort and before
\* the first add; it builds it once.
C8_LookupBeforeGeneration ==
    /\ (calls # <<>>) => CallsOf("prep_truth_lookup") = {1}
    /\ (pc \in {"gen", "emit", "done"}) =>
          (output.lookup.err = "none" /\ output.lookup.entries = 1)

\* C8 witness: run() has built the table, called generate_events and add.
C8_Witness ==
    /\ CallsOf("generate_events") # {}
    /\ CallsOf("add") # {}
    /\ output.lookup.entries = 1

\* C9 (as claimed): after its first call, run() generates and emits nothing.
C9_SecondRunDoesNothing ==
    (runs >= 2) => (CallsOf("generate_events") = {} /\ CallsOf("add") = {})

\* The lookup numbers an event type declares in labels().
DeclaredCodes(et) == {labels(et)[n][1] : n \in 1..Len(labels(et))}

\* C5 (as claimed): when two registered event types declare the same numeric
\* code, building the lookup table raises InvalidLookupError.
C5_DuplicateCodeRejected ==
    ( /\ runs >= 1
      /\ \E a, b \in 1..Len(run_types) :
            /\ a < b
            /\ \E x \in DeclaredCodes(run_types[a]),
                  y \in DeclaredCodes(run_types[b]) :
                  x.tag = "int" /\ y.tag = "int" /\ x.v = y.v )
    => output.lookup.err = "InvalidLookupError"

\* A lookup number the claim calls invalid: unset, negative, or not an
\* integer, a str included.
Invalid(number) ==
    \/ number.tag \in {"none", "str", "float"}
    \/ number.v < 0

\* C6 (as claimed): when a declared code is unset, negative or not an integer
\* (a str included), building the lookup table raises InvalidLookupError with
\* the name of the event type, the label and the code of such an entry.
C6_InvalidCodeRejected ==
    LET items == LabelItems(run_types)
    IN ( /\ runs >= 1
         /\ \E n \in 1..Len(items) : Invalid(items[n].number) )
       => /\ output.lookup.err = "InvalidLookupError"
          /\ \E n \in 1..Len(items) :
                /\ Invalid(items[n].number)
                /\ output.lookup.obj_name = items[n].obj_name
                /\ output.lookup.label_name = items[n].label
                /\ output.lookup.supplied_number = items[n].number

\* C10 (as claimed): an object of each built-in class has a labels() mapping,
\* and every Event its generate_events returns carries a truth_index that is
\* a key of it.
C10_TruthIndexInLabels ==
    /\ (calls # <<>>) =>
          /\ Len(event_types) = 1
          /\ "labels" \in ClassMethods(event_types[1].cls)
    /\ (CallsOf("generate_events") # {}) =>
          /\ err = "none"
          /\ \A n \in 1..Len(events) :
                \E c \in DeclaredCodes(event_types[1]) :
                    PyEq(c, events[n].truth_index)

CorrelatedReturned ==
    /\ pc = "returned"
    /\ Len(event_types) = 1
    /\ event_types[1].cls = "Correlated"

\* The start time the script passed to generate_events.
CalledT0 == calls[Len(calls)].t0_s

\* C12: the list Correlated.generate_events returns has even length, and for
\* every pair the event at the odd place (counting from one) is the prompt
\* event and the next one its delayed partner: they carry the prompt and the
\* delayed lookup number, have the detector and the site of the event type,
\* and the delayed timestamp is not before the prompt timestamp.
C12_CorrelatedPairs ==
    CorrelatedReturned =>
        /\ Len(events) % 2 = 0
        /\ \A k \in 1..(Len(events) \div 2) :
              LET prompt == events[2 * k - 1]
                  delayed == events[2 * k]
              IN /\ prompt.truth_index = event_types[1].truth_label_prompt
                 /\ delayed.truth_index = event_types[1].truth_label_delayed
                 /\ prompt.detector = delayed.detector
                 /\ prompt.detector = event_types[1].detector
                 /\ prompt.site = delayed.site
                 /\ prompt.site = event_types[1].site
                 /\ delayed.timestamp >= prompt.timestamp

\* C12 witness: a call returned two pairs, the first with a delay, the second
\* with a prompt event before the first pair's delayed event.
C12_Witness ==
    /\ CorrelatedReturned
    /\ Len(events) = 4
    /\ event_types[1].truth_label_prompt # event_types[1].truth_label_delayed
    /\ events[2].timestamp > events[1].timestamp
    /\ events[3].timestamp < events[2].timestamp

\* C16: the delayed timestamp of each pair is the prompt timestamp plus the
\* delay drawn for the pair, a non-negative integer, also when the sum is at
\* or after the end of the window [t0_ns, t0_ns + duration_ns).
C16_DelayedNotClamped ==
    CorrelatedReturned =>
        LET actual_number == Len(events) \div 2
            delays == [k \in 1..actual_number |->
                          stream[rng.seed][actual_number + k].raw]
        IN \A k \in 1..actual_number :
              /\ delays[k] \in Nat
              /\ events[2 * k].timestamp
                     = events[2 * k - 1].timestamp + delays[k]

\* C16 witness: with a start time that is not zero, a call returned a pair
\* whose delayed timestamp is at the end of the window or later.
C16_Witness ==
    /\ CorrelatedReturned
    /\ CalledT0 > 0
    /\ \E k \in 1..(Len(events) \div 2) :
          /\ events[2 * k].timestamp >= NsPerS * (CalledT0 + duration)
          /\ events[2 * k - 1].timestamp < NsPerS * (CalledT0 + duration)

\* The class of the object the script built, or tried to build.
BuiltClass == IF calls = <<>> THEN "" ELSE calls[1].obj.cls

\* The WP events of a list a Muon returned: those in the water pool detector,
\* which come first.
CountWP == Cardinality({n \in 1..Len(events) : events[n].detector = WP_detector})

\* C13 (as claimed): a script can build a Muon and call its generate_events;
\* the call returns, after the count WP events, floor(count * prob_WP_and_AD)
\* AD events, the k-th of them 50 ns after the k-th WP timestamp.
C13_ADMuonsFollowWP ==
    (BuiltClass = "Muon") =>
        /\ err = "none"
        /\ (pc = "returned") =>
              LET n_AD == IntOfProduct(CountWP, calls[1].obj.prob_WP_and_AD)
              IN /\ Len(events) >= CountWP + n_AD
                 /\ \A k \in 1..n_AD :
                       /\ events[CountWP + k].detector # WP_detector
                       /\ events[CountWP + k].timestamp
                              = events[k].timestamp + 50

\* C14 (as claimed): a script can build a Muon and call its generate_events;
\* the call returns, after the WP and the AD events,
\* floor(count * prob_WP_and_shower) shower events and nothing more, the k-th
\* of them 50 ns after the WP timestamp of index n_AD + k.
C14_ShowerMuonsFollowAD ==
    (BuiltClass = "Muon") =>
        /\ pc # "failed"
        /\ (pc = "returned") =>
              LET n_AD == IntOfProduct(CountWP, calls[1].obj.prob_WP_and_AD)
                  n_shower ==
                      IntOfProduct(CountWP, calls[1].obj.prob_WP_and_shower)
              IN /\ Len(events) = CountWP + n_AD + n_shower
                 /\ \A k \in 1..n_shower :
                       /\ events[CountWP + n_AD + k].detector # WP_detector
                       /\ events[CountWP + n_AD + k].timestamp
                              = events[n_AD + k].timestamp + 50

\* The primary events of a returned list: every event of a Single, the prompt
\* events of a Correlated, the WP events of a Muon.
Primary(n) ==
    CASE BuiltClass = "Correlated" -> n % 2 = 1
      [] BuiltClass = "Muon" -> events[n].detector = WP_detector
      [] OTHER -> TRUE

\* C15 (as claimed): a script can build each built-in event type and call its
\* generate_events for a run that starts at t0 and lasts duration; every
\* primary timestamp t of the returned list has t0_ns <= t < t0_ns +
\* duration_ns, also when t0 is not zero.
C15_PrimaryTimestampsInWindow ==
    (calls # <<>>) =>
        /\ err = "none"
        /\ pc # "failed"
        /\ (pc = "returned") =>
              \A n \in 1..Len(events) :
                  Primary(n) =>
                      /\ NsPerS * CalledT0 <= events[n].timestamp
                      /\ events[n].timestamp < NsPerS * (CalledT0 + duration)

\* The prompt timestamp that the value at position j of the stream gives in
\* the window of the call.
PromptTimeAt(j) ==
    integers(stream[rng.seed][j].raw, NsPerS * CalledT0,
             NsPerS * (CalledT0 + duration))

\* C17 (as claimed): at a rate that is not zero, generate_events takes its
\* count from the generator before anything else: the first value of the
\* stream is the count and the prompt timestamps are read from the values
\* after it.
C17_CountDrawnFromGenerator ==
    (CorrelatedReturned /\ event_types[1].rate_hz > 0) =>
        \A k \in 1..(Len(events) \div 2) :
            events[2 * k - 1].timestamp = PromptTimeAt(k + 1)

\* C20 (as claimed): a script can build a Single with rate_hz = 0, and its
\* generate_events returns the empty list for every duration.
C20_SingleRateZeroEmpty ==
    (BuiltClass = "Single" /\ calls[1].obj.rate_hz = 0) =>
        /\ pc # "failed"
        /\ err = "none"
        /\ (pc = "returned") => events = <<>>

\* C18 (as claimed): when a registered Correlated has a prompt or delayed
\* lookup number that is unset, negative or not an integer, its labels()
\* raises ConfigurationError, which ends the run() that called it.
C18_LabelsRaisesConfigurationError ==
    ( /\ runs >= 1
      /\ \E n \in 1..Len(run_types) :
            /\ run_types[n].cls = "Correlated"
            /\ \/ Invalid(run_types[n].truth_label_prompt)
               \/ Invalid(run_types[n].truth_label_delayed) )
    => err = "ConfigurationError"

\* C18 (amended): Correlated.labels() raises nothing and tests nothing: it
\* returns the mapping of its two lookup numbers whatever they are, the
\* delayed entry alone (under the first key) when the two are equal.  The
\* numbers are tested when run() builds the lookup table from the mapping:
\* for the Correlated registered first, a key that is None, negative or not
\* an int raises InvalidLookupError with the name, that key and its label,
\* and otherwise what stops the run, if anything does, is an entry of an
\* event type registered after it.
C18_LabelsReturnedUnchecked ==
    (runs >= 1 /\ Len(run_types) >= 1 /\ run_types[1].cls = "Correlated") =>
        LET et == run_types[1]
            p == et.truth_label_prompt
            d == et.truth_label_delayed
            same == PyEq(p, d)
            lookup == output.lookup
        IN /\ err # "ConfigurationError"
           /\ Invalid(p) =>
                 /\ lookup.err = "InvalidLookupError"
                 /\ lookup.obj_name = et.name
                 /\ lookup.supplied_number = p
                 /\ lookup.label_name =
                        IF same THEN et.name \o "_delayed"
                        ELSE et.name \o "_prompt"
           /\ (~Invalid(p) /\ ~same /\ Invalid(d)) =>
                 /\ lookup.err = "InvalidLookupError"
                 /\ lookup.obj_name = et.name
                 /\ lookup.supplied_number = d
                 /\ lookup.label_name = et.name \o "_delayed"
           /\ (~Invalid(p) /\ (same \/ ~Invalid(d))) =>
                 \/ lookup.err = "none" /\ lookup.entries = 1
                 \/ /\ lookup.err = "InvalidLookupError"
                    /\ Invalid(lookup.supplied_number)
                    /\ \E n \in 2..Len(run_types) :
                          /\ run_types[n].name = lookup.obj_name
                          /\ lookup.supplied_number
                                 \in DeclaredCodes(run_types[n])
                 \/ /\ lookup.err = "TypeError"
                    /\ \E n \in 2..Len(run_types) :
                          PyStr \in DeclaredCodes(run_types[n])

\* C18 witness: a run() on a Correlated whose prompt number is set and whose
\* delayed number is unset was stopped by the lookup table, which names the
\* delayed label.
C18_Witness ==
    /\ runs >= 1
    /\ Len(run_types) = 1
    /\ run_types[1].cls = "Correlated"
    /\ run_types[1].truth_label_prompt = PyInt(1)
    /\ run_types[1].truth_label_delayed = None
    /\ err = "InvalidLookupError"
    /\ output.lookup.label_name = run_types[1].name \o "_delayed"

\* Two declared entries of a run give one label text to two different codes.
LabelReused ==
    LET items == LabelItems(run_types)
    IN \E a, b \in 1..Len(items) :
          /\ a < b
          /\ items[a].label = items[b].label
          /\ items[a].number.tag = "int" /\ items[a].number.v >= 0
          /\ items[b].number.tag = "int" /\ items[b].number.v >= 0
          /\ items[a].number.v # items[b].number.v

\* C19 (as claimed): when two declared entries have the same label text and
\* different codes, building the lookup table raises InvalidLookupError.
C19_ReusedLabelRejected ==
    (runs >= 1 /\ LabelReused) => output.lookup.err = "InvalidLookupError"

\* C21 (as claimed): a script can build a Muon and call its generate_events;
\* the call returns one WP event per occurrence, duration_s * rate_hz of them
\* whatever the prob_* attributes are, each in the water pool detector and at
\* the timestamp drawn for its occurrence.
C21_OneWPEventPerOccurrence ==
    (BuiltClass = "Muon" /\ calls[1].obj.site \in MuonSites) =>
        /\ err = "none"
        /\ pc \in {"built", "returned"}
        /\ (pc = "returned") =>
              LET count == duration * calls[1].obj.rate_hz
              IN /\ CountWP = count
                 /\ Len(events) >= count
                 /\ \A n \in 1..count :
                       /\ events[n].detector = WP_detector
                       /\ events[n].timestamp =
                              integers(stream[rng.seed][n].raw, 0,
                                       NsPerS * duration)

\* C22 (as claimed): building a Muon for a site other than 1, 2 and 4 raises
\* ConfigurationError; for site 1, 2 or 4 the object is built and the detector
\* of every AD and shower event it returns is one of the site's detectors,
\* 1..2 for sites 1 and 2 and 1..4 for site 4.
C22_MuonSiteDetectors ==
    (BuiltClass = "Muon") =>
        LET site == calls[1].obj.site
        IN /\ (site \notin {1, 2, 4}) =>
                 (pc = "failed" /\ err = "ConfigurationError")
           /\ (site \in {1, 2, 4}) =>
                 /\ err = "none"
                 /\ pc \in {"built", "returned"}
                 /\ \A n \in 1..Len(events) :
                       (events[n].detector # WP_detector) =>
                           events[n].detector
                               \in (IF site = 4 THEN 1..4 ELSE 1..2)

\* run() has built the lookup table.
TableBuilt == runs >= 1 /\ output.lookup.err = "none"

\* What a reader of MCTruthLookup finds under a branch name: the value of
\* the first branch of that name.
Lookup(name) ==
    LET b == output.lookup.branches
        n == CHOOSE n \in 1..Len(b) :
                 b[n].name = name /\ \A m \in 1..(n - 1) : b[m].name # name
    IN b[n].value

\* C23 (as claimed): for every (code, label) pair that a registered event
\* type declares, the table has a branch named by the label whose value is
\* the code and a branch named '_<code>' whose value is the label, so that
\* looking up the label and then the code found gives the label back, and
\* the code likewise; the table is filled once.
C23_LookupBidirectional ==
    TableBuilt =>
        /\ output.lookup.entries = 1
        /\ \A n \in 1..Len(LabelItems(run_types)) :
              LET item == LabelItems(run_types)[n]
                  b == output.lookup.branches
              IN /\ \E m \in 1..Len(b) :
                       b[m].name = item.label /\ b[m].value = item.number
                 /\ \E m \in 1..Len(b) :
                       /\ b[m].name = NumberName(item.number)
                       /\ b[m].value = item.label
                 /\ Lookup(NumberName(Lookup(item.label))) = item.label
                 /\ Lookup(Lookup(NumberName(item.number))) = item.number

\* C27 (as claimed): run() hands every generated event to MCOutput.add
\* exactly once: when run() has ended after its generation loop, the events
\* passed to add are the events generated, each once, with none left out and
\* none added.
C27_EveryEventAddedOnce ==
    (Sorted /\ pc \in {"done", "failed"}) =>
        /\ Len(output.added) = Len(events)
        /\ \A n \in 1..Len(events) :
              /\ output.added[n] = events[n]
              /\ Cardinality({c \in CallsOf("add") : calls[c].et = n}) = 1

\* C28 (as claimed): a script can build a Muon whose prob_WP_and_AD and
\* prob_WP_and_shower are any non-negative numbers, their sum above 1
\* included, and call its generate_events; in the list returned the AD and
\* shower events together are no more than the WP events, and the k-th of
\* them is ad_delay after the k-th WP timestamp, so that no WP timestamp is
\* taken by an AD event and by a shower event.
C28_ADAndShowerDisjoint ==
    (BuiltClass = "Muon" /\ calls[1].obj.site \in MuonSites) =>
        /\ pc \in {"built", "returned"}
        /\ (pc = "returned") =>
              LET secondary == Len(events) - CountWP
              IN /\ secondary <= CountWP
                 /\ \A k \in 1..secondary :
                       /\ events[CountWP + k].detector # WP_detector
                       /\ events[CountWP + k].timestamp
                              = events[k].timestamp + ad_delay

\* The (label, number) entries the claim gives an event type: a Correlated
\* whose two numbers are equal has the delayed label alone, under the number
\* given for the prompt.
ClaimedEntries(et) ==
    IF et.cls # "Correlated" THEN {<<et.name, et.truth_label>>}
    ELSE IF PyEq(et.truth_label_prompt, et.truth_label_delayed)
    THEN {<<et.name \o "_delayed", et.truth_label_prompt>>}
    ELSE {<<et.name \o "_prompt", et.truth_label_prompt>>,
          <<et.name \o "_delayed", et.truth_label_delayed>>}

RECURSIVE ClaimedCount(_)
ClaimedCount(types) ==
    IF types = <<>> THEN 0
    ELSE Cardinality(ClaimedEntries(Head(types))) + ClaimedCount(Tail(types))

\* The first event type of the run that has an entry whose number the table
\* refuses, 0 when there is none.
FirstRefused ==
    LET bad == {n \in 1..Len(run_types) :
                   \E e \in ClaimedEntries(run_types[n]) :
                       CheckNumber(e[2]) # "none"}
    IN IF bad = {} THEN 0 ELSE CHOOSE n \in bad : \A m \in bad : n <= m

\* C29: a Correlated contributes two entries to the lookup table only when
\* its prompt and delayed numbers differ; when they are equal it contributes
\* one, '<name>_delayed' under that number, and '<name>_prompt' is not in
\* the table on its account; the reuse of the number is not reported (the
\* table is built when every number is valid), and with both numbers unset
\* the error raised names the delayed label.
C29_EqualCodesOneEntry ==
    (runs >= 1) =>
        LET L == output.lookup
        IN /\ (FirstRefused = 0 /\ run_types # <<>>) => L.err = "none"
           /\ (L.err = "none") =>
                 /\ Len(L.numbers_by_label) = ClaimedCount(run_types)
                 /\ Len(L.labels_by_number) = ClaimedCount(run_types)
                 /\ \A n \in 1..Len(run_types) :
                       \A e \in ClaimedEntries(run_types[n]) :
                           \E m \in 1..Len(L.numbers_by_label) :
                               L.numbers_by_label[m] = e
                 /\ \A m \in 1..Len(L.numbers_by_label) :
                       \E n \in 1..Len(run_types) :
                           L.numbers_by_label[m] \in ClaimedEntries(run_types[n])
           /\ (/\ FirstRefused # 0
               /\ run_types[FirstRefused].cls = "Correlated"
               /\ run_types[FirstRefused].truth_label_prompt = None
               /\ run_types[FirstRefused].truth_label_delayed = None) =>
                 /\ L.err = "InvalidLookupError"
                 /\ L.label_name = run_types[FirstRefused].name \o "_delayed"

\* A Correlated with both numbers 1 was registered alone and its table was
\* built: one entry, 'A_delayed'.
C29_Witness ==
    /\ runs >= 1
    /\ Len(run_types) = 1
    /\ run_types[1].cls = "Correlated"
    /\ run_types[1].truth_label_prompt = PyInt(1)
    /\ run_types[1].truth_label_delayed = PyInt(1)
    /\ output.lookup.err = "none"
    /\ output.lookup.numbers_by_label = << <<"A_delayed", PyInt(1)>> >>

\* run() was entered with no label to put in the table: no event type was
\* registered, or only types whose labels() is empty.
NoLabels == runs >= 1 /\ \A n \in 1..Len(run_types) : run_types[n].cls = "Bare"

\* C30: run() on a ToyMC with no registered event type, or with event types
\* whose labels() are all empty, fails while the lookup table is built, with
\* the ValueError of max() over no value: generate_events is not called, no
\* event exists, finalize is not reached and run() leaves the file as it
\* was: open and unwritten unless the script calls finalize() itself.
C30_NoLabelsFailsInLookup ==
    NoLabels =>
        /\ pc = "failed"
        /\ err = "ValueError"
        /\ output.lookup.err = "ValueError"
        /\ output.lookup.entries = 0
        /\ CallsOf("generate_events") = {}
        /\ CallsOf("add") = {}
        /\ CallsOf("finalize") = {}
        /\ events = <<>>
        /\ outfile = [is_open |-> finalized = 0, writes |-> finalized]

\* run() was called on a ToyMC without event types and has failed.
C30_Witness ==
    /\ runs >= 1
    /\ run_types = <<>>
    /\ pc = "failed"
    /\ err = "ValueError"

\* run() was called with one event type, whose labels() is empty, and has
\* failed.
C30_WitnessEmptyLabels ==
    /\ runs >= 1
    /\ Len(run_types) = 1
    /\ run_types[1].cls = "Bare"
    /\ err = "ValueError"

\* C24: every (x, y) the rejection loops give out is inside the cylinder,
\* hypot(x, y) <= R: the position of a Single, the prompt position of a
\* Correlated and its delayed position.
C24_PositionsInsideCylinder ==
    /\ (position.phase = "returned") =>
          position.x * position.x + position.y * position.y
              <= RadiusSteps * RadiusSteps
    /\ (position.phase \in {"displace", "delayed", "returned"}
            /\ position.cls = "Correlated") =>
          position.prompt[1] * position.prompt[1]
              + position.prompt[2] * position.prompt[2]
              <= RadiusSteps * RadiusSteps

\* A Correlated has its delayed position, away from the prompt position and
\* found after a displacement was refused.
C24_Witness ==
    /\ position.phase = "returned"
    /\ position.cls = "Correlated"
    /\ position.redrawn
    /\ <<position.x, position.y>> # position.prompt

\* C25 (as claimed): WP_nHit_spectrum returns an integer of the closed
\* interval [15, 100], and every value of it is returned at some call when
\* the generator is sampled fairly; stated here for the two ends of the
\* interval, 15 and 100.
C25_NHitClosedInterval ==
    /\ [](nhit.called => nhit.value \in WP_nHit_low..WP_nHit_high)
    /\ <>(nhit.called /\ nhit.value = WP_nHit_low)
    /\ <>(nhit.called /\ nhit.value = WP_nHit_high)

\* The delayed-position loop is running.
InDelayedLoop == position.phase = "delayed"

\* C26: the delayed-position loop of a Correlated terminates: whatever the
\* prompt position inside the cylinder, the boundary with x, y >= 0
\* included, some displacement that can be drawn is accepted, and under fair
\* sampling the loop is left.
C26_DelayedLoopExits ==
    /\ [](InDelayedLoop =>
             \E dx \in Displacements, dy \in Displacements :
                 ~OutsideCylinder(position.prompt[1] + dx,
                                  position.prompt[2] + dy))
    /\ (InDelayedLoop ~> (position.phase = "returned"))

\* The loop was left for a prompt position on the wall of the cylinder with
\* x, y >= 0, after a displacement was refused.
C26_Witness ==
    /\ position.phase = "returned"
    /\ position.cls = "Correlated"
    /\ position.redrawn
    /\ position.prompt[1] >= 0
    /\ position.prompt[2] >= 0
    /\ position.prompt[1] * position.prompt[1]
           + position.prompt[2] * position.prompt[2]
           = RadiusSteps * RadiusSteps

====
